---- MODULE Spec2Model ----
(***************************************************************************)
(* EnduranceRPG gamification engine: leveling, anti-cheat, XP calculation, *)
(* streaks, daily quests and the daily XP cap, together with the           *)
(* processAndStoreActivity pipeline that applies them to the persisted     *)
(* game profile.                                                           *)
(*                                                                         *)
(* Time is counted in slots since the Unix epoch (1970-01-01T00:00Z, a     *)
(* Thursday); a calendar day has SlotsPerDay slots.  A Timestamp / Date is *)
(* a slot number, an absent (undefined) one is NoDate.                     *)
(***************************************************************************)
EXTENDS Integers, Sequences, FiniteSets, TLC

----------------------------------------------------------------------------
(* Bounds of the model *)

SlotsPerDay == 2
StartDay == 2
MaxTicks == 2
MaxActs == 4
MaxProbeXP == 6000
MaxProbeLevel == 12
MaxStreakDays == 4
MaxStreakActs == 4
MaxConcActs == 3
MaxDupActs == 2
MaxCapActs == 2
MaxHookActs == 2
MaxHookXP == 400

StartNow == StartDay * SlotsPerDay
MaxNow == StartNow + MaxTicks
MaxStreakNow == (StartDay + MaxStreakDays) * SlotsPerDay
NoDate == -1

----------------------------------------------------------------------------
(* GAME_CONFIG and DAILY_QUESTS *)

XP_PER_KM_RUN == 10
XP_PER_KM_RIDE == 3
XP_PER_10M_ELEVATION == 1
LEVEL_BASE_XP == 500
STREAK_THRESHOLD == 3
MAX_SPEED_KMH == 25
DAILY_XP_CAP == 500
RUNNING_TYPES == {"Run", "VirtualRun", "TrailRun"}
CYCLING_TYPES == {"Ride", "VirtualRide", "EBikeRide", "MountainBikeRide"}

\* requirement fields that are absent in the source are 0 here: the code tests
\* them by truthiness, which treats 0 and undefined alike
DAILY_QUESTS ==
  << [id |-> "DISTANCE_RUNNER", requirement |-> [distance |-> 5000, elevation |-> 0],
      reward |-> 50, activeDays |-> {1, 3, 5}],
     [id |-> "HILL_CLIMBER", requirement |-> [distance |-> 0, elevation |-> 50],
      reward |-> 50, activeDays |-> {2, 4}],
     [id |-> "WEEKEND_WARRIOR", requirement |-> [distance |-> 10000, elevation |-> 0],
      reward |-> 100, activeDays |-> {0, 6}] >>

\* the quadratic variant's LEVELING coefficients
LEVELING_A == 100
LEVELING_B == 300

----------------------------------------------------------------------------
(* Dates: Date.getDate/getMonth/getFullYear agree iff the calendar day is  *)
(* the same; Date.getDay is the weekday, 0 = Sunday.                       *)

DayOf(t) == t \div SlotsPerDay
\* a comparison of the timestamps instead of their dates
SameInstant(a, b) == a = b

SameDay(a, b) == DayOf(a) = DayOf(b)
getDay(t) == (DayOf(t) + 4) % 7

----------------------------------------------------------------------------
(* IEEE-754 binary64 arithmetic, as far as the engine's `/` needs it.      *)
(* A positive double is [hi, lo, e]: the 53-bit significand hi*2^27 + lo,  *)
(* 2^52 <= significand < 2^53, scaled by 2^e.                              *)

LIMB == 134217728
TOPBIT == 33554432

MGeq(x, y) == x.hi > y.hi \/ (x.hi = y.hi /\ x.lo >= y.lo)
MGt(x, y) == x.hi > y.hi \/ (x.hi = y.hi /\ x.lo > y.lo)
MDbl(x) == [hi |-> 2 * x.hi + (2 * x.lo) \div LIMB, lo |-> (2 * x.lo) % LIMB]
MSub(x, y) ==
  IF x.lo >= y.lo THEN [hi |-> x.hi - y.hi, lo |-> x.lo - y.lo]
  ELSE [hi |-> x.hi - y.hi - 1, lo |-> x.lo + LIMB - y.lo]
MInc(x) ==
  IF x.lo + 1 = LIMB THEN [hi |-> x.hi + 1, lo |-> 0] ELSE [hi |-> x.hi, lo |-> x.lo + 1]

RECURSIVE Normalize(_, _)
Normalize(m, e) ==
  IF m.hi >= TOPBIT THEN [hi |-> m.hi, lo |-> m.lo, e |-> e]
  ELSE Normalize(MDbl(m), e - 1)

\* the double that holds the positive integer n exactly
ToDouble(n) == Normalize([hi |-> n \div LIMB, lo |-> n % LIMB], 0)

\* long division: n more quotient bits of s.r / d, s.r < d
RECURSIVE DivBits(_, _, _)
DivBits(s, d, n) ==
  IF n = 0 THEN s
  ELSE LET r2 == MDbl(s.r)
       IN IF MGeq(r2, d)
          THEN DivBits([q |-> MInc(MDbl(s.q)), r |-> MSub(r2, d)], d, n - 1)
          ELSE DivBits([q |-> MDbl(s.q), r |-> r2], d, n - 1)

\* x / y rounded to nearest, ties to even
FDiv(x, y) ==
  LET mx == [hi |-> x.hi, lo |-> x.lo]
      my == [hi |-> y.hi, lo |-> y.lo]
      big == MGeq(mx, my)
      qr == IF big THEN DivBits([q |-> [hi |-> 0, lo |-> 1], r |-> MSub(mx, my)], my, 52)
            ELSE DivBits([q |-> [hi |-> 0, lo |-> 0], r |-> mx], my, 53)
      e == IF big THEN x.e - y.e - 52 ELSE x.e - y.e - 53
      r2 == MDbl(qr.r)
      up == MGt(r2, my) \/ (r2 = my /\ qr.q.lo % 2 = 1)
      q == IF up THEN MInc(qr.q) ELSE qr.q
  IN IF q.hi >= 2 * TOPBIT THEN [hi |-> TOPBIT, lo |-> 0, e |-> e + 1]
     ELSE [hi |-> q.hi, lo |-> q.lo, e |-> e]

FGt(x, y) == x.e > y.e \/ (x.e = y.e /\ MGt(x, y))

\* the double 0
FZero == [hi |-> 0, lo |-> 0, e |-> 0]
FIsZero(x) == x.hi = 0 /\ x.lo = 0

\* the double that holds the integer n >= 0 exactly
FOfInt(n) == IF n = 0 THEN FZero ELSE ToDouble(n)

(* Exact intermediate results: naturals below 2^108 as four limbs, least   *)
(* significant first.                                                      *)
WOf(m) == <<m.lo, m.hi, 0, 0>>
WAdd(a, b) ==
  LET s1 == a[1] + b[1]
      s2 == a[2] + b[2] + s1 \div LIMB
      s3 == a[3] + b[3] + s2 \div LIMB
      s4 == a[4] + b[4] + s3 \div LIMB
  IN <<s1 % LIMB, s2 % LIMB, s3 % LIMB, s4>>
WSub(a, b) ==
  LET d1 == a[1] - b[1]
      b1 == IF d1 < 0 THEN 1 ELSE 0
      d2 == a[2] - b[2] - b1
      b2 == IF d2 < 0 THEN 1 ELSE 0
      d3 == a[3] - b[3] - b2
      b3 == IF d3 < 0 THEN 1 ELSE 0
  IN <<d1 + b1 * LIMB, d2 + b2 * LIMB, d3 + b3 * LIMB, a[4] - b[4] - b3>>
WHalf(a) ==
  <<a[1] \div 2 + (a[2] % 2) * (LIMB \div 2), a[2] \div 2 + (a[3] % 2) * (LIMB \div 2),
    a[3] \div 2 + (a[4] % 2) * (LIMB \div 2), a[4] \div 2>>
WIsZero(a) == a = <<0, 0, 0, 0>>
\* a >= 2^53, a < 2^52
WOver(a) == a[4] # 0 \/ a[3] # 0 \/ a[2] >= 2 * TOPBIT
WUnder(a) == a[4] = 0 /\ a[3] = 0 /\ a[2] < TOPBIT

\* s.w * 2^(s.n)
RECURSIVE WShlBits(_)
WShlBits(s) == IF s.n = 0 THEN s.w ELSE WShlBits([w |-> WAdd(s.w, s.w), n |-> s.n - 1])
WShl(a, n) == WShlBits([w |-> a, n |-> n])

\* halve s.w until it has 53 bits; g is the last bit shifted out, st whether
\* any bit before it was set
RECURSIVE WShrink(_)
WShrink(s) ==
  IF WOver(s.w)
  THEN WShrink([w |-> WHalf(s.w), e |-> s.e + 1, g |-> s.w[1] % 2, st |-> s.st \/ s.g = 1])
  ELSE s

RECURSIVE WGrow(_)
WGrow(s) ==
  IF WUnder(s.w) THEN WGrow([w |-> WAdd(s.w, s.w), e |-> s.e - 1]) ELSE s

\* the double nearest to w * 2^e, ties to even; w > 0
FRound(w, e) ==
  IF WOver(w)
  THEN LET s == WShrink([w |-> w, e |-> e, g |-> 0, st |-> FALSE])
           up == s.g = 1 /\ (s.st \/ s.w[1] % 2 = 1)
           r == IF up THEN WAdd(s.w, <<1, 0, 0, 0>>) ELSE s.w
       IN IF WOver(r) THEN [hi |-> TOPBIT, lo |-> 0, e |-> s.e + 1]
          ELSE [hi |-> r[2], lo |-> r[1], e |-> s.e]
  ELSE LET s == WGrow([w |-> w, e |-> e])
       IN [hi |-> s.w[2], lo |-> s.w[1], e |-> s.e]

\* bit i of the significand of y
SigBit(y, i) == IF i < 27 THEN (y.lo \div (2 ^ i)) % 2 ELSE (y.hi \div (2 ^ (i - 27))) % 2

\* the exact product of the significands: s.acc * 2^(s.i + 1) + m * (bits s.i..0 of y)
RECURSIVE MulBits(_, _, _)
MulBits(s, m, y) ==
  IF s.i < 0 THEN s.acc
  ELSE MulBits([acc |-> IF SigBit(y, s.i) = 1 THEN WAdd(WAdd(s.acc, s.acc), m)
                        ELSE WAdd(s.acc, s.acc),
                i |-> s.i - 1], m, y)

\* x * y
FMul(x, y) ==
  IF FIsZero(x) \/ FIsZero(y) THEN FZero
  ELSE FRound(MulBits([acc |-> <<0, 0, 0, 0>>, i |-> 52], WOf(x), y), x.e + y.e)

\* x + y
FAdd(x, y) ==
  IF FIsZero(x) THEN y
  ELSE IF FIsZero(y) THEN x
  ELSE IF x.e - y.e > 54 THEN x
  ELSE IF y.e - x.e > 54 THEN y
  ELSE IF x.e >= y.e THEN FRound(WAdd(WShl(WOf(x), x.e - y.e), WOf(y)), y.e)
  ELSE FRound(WAdd(WShl(WOf(y), y.e - x.e), WOf(x)), x.e)

\* x - y for x >= y > 0 of exponents at most 54 apart
FSub(x, y) ==
  LET w == WSub(WShl(WOf(x), x.e - y.e), WOf(y))
  IN IF WIsZero(w) THEN FZero ELSE FRound(w, y.e)

\* Math.floor(x) for 0 <= x < 2^31
RECURSIVE FloorBits(_, _)
FloorBits(w, n) == IF n = 0 \/ WIsZero(w) THEN w ELSE FloorBits(WHalf(w), n - 1)
FFloor(x) ==
  IF FIsZero(x) THEN 0
  ELSE LET w == FloorBits(WOf(x), 0 - x.e) IN w[2] * LIMB + w[1]

\* x / y for x >= 0
FQuot(x, y) == IF FIsZero(x) THEN FZero ELSE FDiv(x, y)

----------------------------------------------------------------------------
(* LEVEL CALCULATION *)

\* floor(sqrt(n)) by bisection
RECURSIVE ISqrtIn(_, _, _)
ISqrtIn(n, lo, hi) ==
  IF lo >= hi THEN lo
  ELSE LET mid == (lo + hi + 1) \div 2
       IN IF mid * mid <= n THEN ISqrtIn(n, mid, hi) ELSE ISqrtIn(n, lo, mid - 1)
ISqrt(n) == ISqrtIn(n, 0, 46340)

\* a getXPRequiredForLevel without the early return for level <= 1
getXPRequiredForLevelNoFloor(level) ==
  ISqrt(LEVEL_BASE_XP * LEVEL_BASE_XP * level * level * level)

\* power-law variant: floor(LEVEL_BASE_XP * level^1.5) = floor(sqrt(BASE^2 * level^3))
getXPRequiredForLevel(level) ==
  IF level <= 1 THEN 0
  ELSE ISqrt(LEVEL_BASE_XP * LEVEL_BASE_XP * level * level * level)

\* quadratic variant: floor(A * level^2 + B * level)
getXPRequiredForLevelQuad(level) ==
  IF level <= 1 THEN 0
  ELSE LEVELING_A * level * level + LEVELING_B * level

RECURSIVE calculateLevelLoop(_, _, _)
calculateLevelLoop(totalXP, level, xpForCurrentLevel) ==
  LET xpForNextLevel == getXPRequiredForLevel(level + 1)
  IN IF totalXP < xpForNextLevel
     THEN [level |-> level, xpForCurrentLevel |-> xpForCurrentLevel]
     ELSE calculateLevelLoop(totalXP, level + 1, xpForNextLevel)

\* a calculateLevel that reports the absolute threshold of the next level
calculateLevelAbsoluteNext(totalXP) ==
  LET l == calculateLevelLoop(totalXP, 1, 0)
  IN [level |-> l.level, currentLevelXP |-> totalXP - l.xpForCurrentLevel,
      nextLevelXP |-> getXPRequiredForLevel(l.level + 1)]

calculateLevel(totalXP) ==
  LET l == calculateLevelLoop(totalXP, 1, 0)
      nextLevelXP == getXPRequiredForLevel(l.level + 1)
      currentLevelXP == totalXP - l.xpForCurrentLevel
  IN [level |-> l.level, currentLevelXP |-> currentLevelXP,
      nextLevelXP |-> nextLevelXP - l.xpForCurrentLevel]

RECURSIVE calculateLevelLoopQuad(_, _, _)
calculateLevelLoopQuad(totalXP, level, xpForCurrentLevel) ==
  LET xpForNextLevel == getXPRequiredForLevelQuad(level + 1)
  IN IF totalXP < xpForNextLevel
     THEN [level |-> level, xpForCurrentLevel |-> xpForCurrentLevel]
     ELSE calculateLevelLoopQuad(totalXP, level + 1, xpForNextLevel)

calculateLevelQuad(totalXP) ==
  LET l == calculateLevelLoopQuad(totalXP, 1, 0)
      nextLevelXP == getXPRequiredForLevelQuad(l.level + 1)
      currentLevelXP == totalXP - l.xpForCurrentLevel
  IN [level |-> l.level, currentLevelXP |-> currentLevelXP,
      nextLevelXP |-> nextLevelXP - l.xpForCurrentLevel]

getCharacterTier(level) ==
  IF level >= 20 THEN "Master"
  ELSE IF level >= 10 THEN "Expert"
  ELSE IF level >= 5 THEN "Apprentice"
  ELSE "Novice"

----------------------------------------------------------------------------
(* XP CALCULATION: anti-cheat *)

\* what Strava may deliver: type, distance (m), moving time (s), elevation gain (m)
Shapes ==
  { [type |-> "Run", distance |-> 10000, moving_time |-> 3600, total_elevation_gain |-> 0],
    [type |-> "Run", distance |-> 10000, moving_time |-> 1200, total_elevation_gain |-> 0],
    [type |-> "Run", distance |-> 150000, moving_time |-> 54000, total_elevation_gain |-> 0] }

\* activity.distance / 1000 / (activity.moving_time / 3600), each division rounded
speedOf(distance, moving_time) ==
  FDiv(FDiv(ToDouble(distance), ToDouble(1000)), FDiv(ToDouble(moving_time), ToDouble(3600)))

\* distance and moving time of the probes of the anti-cheat filter: standing
\* still, 10 km/h, 30 km/h, the examples of 21.1 and 27.1 km/h, one second
\* either side of 25 km/h, and exactly 25 km/h
SpeedProbes ==
  { <<0, 0>>, <<0, 3600>>, <<10000, 0>>, <<10000, 3600>>, <<10000, 1200>>,
    <<21097, 3600>>, <<21097, 2800>>, <<10000, 1439>>, <<10000, 1441>>,
    <<10000, 1440>>, <<57000, 8208>>, <<5000, 1800>>, <<0, 600>> }

\* the speeds of the activities of the model, computed once
SpeedInputs == {<<s.distance, s.moving_time>> : s \in Shapes} \cup SpeedProbes
speedTable == [x \in {y \in SpeedInputs : y[1] # 0 /\ y[2] # 0} |-> speedOf(x[1], x[2])]

speedKmH(activity) == speedTable[<<activity.distance, activity.moving_time>>]

isSuspiciousSpeed(activity) ==
  IF activity.distance = 0 \/ activity.moving_time = 0 THEN FALSE
  ELSE IF activity.type \in RUNNING_TYPES
       THEN FGt(speedKmH(activity), ToDouble(MAX_SPEED_KMH))
       ELSE FALSE

(* XP CALCULATION: base XP, streak bonus *)

\* Math.floor(distanceKm * xpPerKm + elevationXP), distanceKm = distance / 1000,
\* elevationXP = (total_elevation_gain / 10) * XP_PER_10M_ELEVATION, in doubles
baseXPOf(xpPerKm, distance, total_elevation_gain) ==
  LET distanceKm == FQuot(FOfInt(distance), ToDouble(1000))
      elevationXP == FMul(FQuot(FOfInt(total_elevation_gain), ToDouble(10)),
                          ToDouble(XP_PER_10M_ELEVATION))
  IN FFloor(FAdd(FMul(distanceKm, ToDouble(xpPerKm)), elevationXP))

\* distance and elevation gain of the probes of calculateBaseXP
BaseXPProbes == {0, 290, 550, 1000, 5000, 6770, 10000, 57000} \X {0, 15, 50, 123}

\* the base XP of the activities of the model, computed once
BaseXPInputs ==
  {<<XP_PER_KM_RUN, s.distance, s.total_elevation_gain>> : s \in Shapes} \cup
  {<<r, x[1], x[2]>> : r \in {XP_PER_KM_RUN, XP_PER_KM_RIDE}, x \in BaseXPProbes}
baseXPTable == [x \in BaseXPInputs |-> baseXPOf(x[1], x[2], x[3])]

\* a rate selection that defaults to the cycling rate
xpPerKmDefaultRide(type) ==
  IF type \in RUNNING_TYPES THEN XP_PER_KM_RUN
  ELSE IF type \in CYCLING_TYPES THEN XP_PER_KM_RIDE
  ELSE XP_PER_KM_RIDE

xpPerKmOf(type) ==
  IF type \in RUNNING_TYPES THEN XP_PER_KM_RUN
  ELSE IF type \in CYCLING_TYPES THEN XP_PER_KM_RIDE
  ELSE XP_PER_KM_RUN

calculateBaseXP(activity) ==
  baseXPTable[<<xpPerKmOf(activity.type), activity.distance,
                activity.total_elevation_gain>>]

\* the quadratic variant's configuration
XP_PER_M_ELEVATION == 2
QUAD_XP_PER_KM_RUN == 100
XP_PER_KM_WALK == 50
XP_PER_KM_XC_SKI == 50
XP_PER_KM_SKI == 10
QUAD_XP_PER_KM_RIDE == 25
XP_PER_KM_SWIM == 500
XP_PER_MIN_WORKOUT == 10
XP_PER_MIN_YOGA == 5
WALKING_TYPES == {"Walk", "Hike"}
XC_SKI_TYPES == {"NordicSki", "BackcountrySki"}
SKI_TYPES == {"AlpineSki", "Snowboard"}
WORKOUT_TYPES == {"Workout", "WeightTraining", "Crossfit"}
SWIM_TYPES == {"Swim"}
YOGA_TYPES == {"Yoga", "Elliptical", "StairStepper", "RockClimbing"}

\* a rate selection that forgets the downhill ski types
xpPerKmQuadNoSki(type) ==
  IF type \in RUNNING_TYPES THEN QUAD_XP_PER_KM_RUN
  ELSE IF type \in WALKING_TYPES THEN XP_PER_KM_WALK
  ELSE IF type \in XC_SKI_TYPES THEN XP_PER_KM_XC_SKI
  ELSE IF type \in CYCLING_TYPES THEN QUAD_XP_PER_KM_RIDE
  ELSE IF type \in SWIM_TYPES THEN XP_PER_KM_SWIM
  ELSE 0

\* the quadratic variant's xpPerKm of an activity type
xpPerKmQuad(type) ==
  IF type \in RUNNING_TYPES THEN QUAD_XP_PER_KM_RUN
  ELSE IF type \in WALKING_TYPES THEN XP_PER_KM_WALK
  ELSE IF type \in XC_SKI_TYPES THEN XP_PER_KM_XC_SKI
  ELSE IF type \in SKI_TYPES THEN XP_PER_KM_SKI
  ELSE IF type \in CYCLING_TYPES THEN QUAD_XP_PER_KM_RIDE
  ELSE IF type \in SWIM_TYPES THEN XP_PER_KM_SWIM
  ELSE 0

\* activityXP after the distance branch
distanceXPQuad(activity) ==
  IF activity.distance > 0 /\ xpPerKmQuad(activity.type) > 0
  THEN FMul(FQuot(FOfInt(activity.distance), ToDouble(1000)),
            ToDouble(xpPerKmQuad(activity.type)))
  ELSE FZero

\* a time branch taken only by activities that report no distance
timeXPQuadNoDistance(activity, activityXP) ==
  IF activity.distance = 0 /\ activity.moving_time > 0
  THEN LET movingTimeMin == FQuot(FOfInt(activity.moving_time), ToDouble(60))
       IN IF activity.type \in WORKOUT_TYPES
          THEN FMul(movingTimeMin, ToDouble(XP_PER_MIN_WORKOUT))
          ELSE IF activity.type \in YOGA_TYPES
          THEN FMul(movingTimeMin, ToDouble(XP_PER_MIN_YOGA))
          ELSE activityXP
  ELSE activityXP

\* activityXP after the time branch
timeXPQuad(activity, activityXP) ==
  IF FIsZero(activityXP) /\ activity.moving_time > 0
  THEN LET movingTimeMin == FQuot(FOfInt(activity.moving_time), ToDouble(60))
       IN IF activity.type \in WORKOUT_TYPES
          THEN FMul(movingTimeMin, ToDouble(XP_PER_MIN_WORKOUT))
          ELSE IF activity.type \in YOGA_TYPES
          THEN FMul(movingTimeMin, ToDouble(XP_PER_MIN_YOGA))
          ELSE activityXP
  ELSE activityXP

\* the quadratic variant's calculateBaseXP
calculateBaseXPQuad(activity) ==
  LET activityXP == timeXPQuad(activity, distanceXPQuad(activity))
      elevationXP == FOfInt(activity.total_elevation_gain * XP_PER_M_ELEVATION)
  IN FFloor(FAdd(activityXP, elevationXP))

\* the literal 1.2
STREAK_BONUS_MULTIPLIER == FDiv(ToDouble(12), ToDouble(10))

\* Math.floor(baseXP * (STREAK_BONUS_MULTIPLIER - 1)), in doubles: 1.2 - 1 is
\* 0.19999999999999996
streakBonusOf(baseXP) ==
  FFloor(FMul(FOfInt(baseXP), FSub(STREAK_BONUS_MULTIPLIER, ToDouble(1))))

----------------------------------------------------------------------------
(* STREAK SYSTEM *)

\* an updateStreak whose broken streak restarts at zero
updateStreakFromZero(lastActivityDate, currentStreakCount, currentActivityDate) ==
  IF lastActivityDate = NoDate THEN [streakCount |-> 1, streakActive |-> FALSE]
  ELSE LET daysDiff == (currentActivityDate - lastActivityDate) \div SlotsPerDay
       IN IF daysDiff = 0
          THEN [streakCount |-> currentStreakCount,
                streakActive |-> currentStreakCount >= STREAK_THRESHOLD]
          ELSE IF daysDiff = 1
          THEN [streakCount |-> currentStreakCount + 1,
                streakActive |-> currentStreakCount + 1 >= STREAK_THRESHOLD]
          ELSE [streakCount |-> 0, streakActive |-> FALSE]

\* an updateStreak that takes the distance between the two dates
updateStreakAbsDiff(lastActivityDate, currentStreakCount, currentActivityDate) ==
  IF lastActivityDate = NoDate THEN [streakCount |-> 1, streakActive |-> FALSE]
  ELSE LET diff == currentActivityDate - lastActivityDate
           daysDiff == (IF diff < 0 THEN -diff ELSE diff) \div SlotsPerDay
       IN IF daysDiff = 0
          THEN [streakCount |-> currentStreakCount,
                streakActive |-> currentStreakCount >= STREAK_THRESHOLD]
          ELSE IF daysDiff = 1
          THEN [streakCount |-> currentStreakCount + 1,
                streakActive |-> currentStreakCount + 1 >= STREAK_THRESHOLD]
          ELSE [streakCount |-> 1, streakActive |-> FALSE]

\* an updateStreak whose streak becomes active one day late
updateStreakLate(lastActivityDate, currentStreakCount, currentActivityDate) ==
  IF lastActivityDate = NoDate THEN [streakCount |-> 1, streakActive |-> FALSE]
  ELSE LET daysDiff == (currentActivityDate - lastActivityDate) \div SlotsPerDay
       IN IF daysDiff = 0
          THEN [streakCount |-> currentStreakCount,
                streakActive |-> currentStreakCount > STREAK_THRESHOLD]
          ELSE IF daysDiff = 1
          THEN [streakCount |-> currentStreakCount + 1,
                streakActive |-> currentStreakCount + 1 > STREAK_THRESHOLD]
          ELSE [streakCount |-> 1, streakActive |-> FALSE]

updateStreak(lastActivityDate, currentStreakCount, currentActivityDate) ==
  IF lastActivityDate = NoDate THEN [streakCount |-> 1, streakActive |-> FALSE]
  ELSE LET daysDiff == (currentActivityDate - lastActivityDate) \div SlotsPerDay
       IN IF daysDiff = 0
          THEN [streakCount |-> currentStreakCount,
                streakActive |-> currentStreakCount >= STREAK_THRESHOLD]
          ELSE IF daysDiff = 1
          THEN [streakCount |-> currentStreakCount + 1,
                streakActive |-> currentStreakCount + 1 >= STREAK_THRESHOLD]
          ELSE [streakCount |-> 1, streakActive |-> FALSE]

----------------------------------------------------------------------------
(* DAILY QUESTS *)

\* a getActiveDailyQuests that ignores the weekday
getActiveDailyQuestsAnyDay(date) == DAILY_QUESTS

getActiveDailyQuests(date) ==
  SelectSeq(DAILY_QUESTS, LAMBDA quest : getDay(date) \in quest.activeDays)

\* a membership test that never finds the quest
includesNever(s, e) == FALSE

\* Array.prototype.includes
includes(s, e) == \E i \in 1..Len(s) : s[i] = e

questCompleted(quest, activity) ==
  /\ (quest.requirement.distance # 0 => activity.distance >= quest.requirement.distance)
  /\ (quest.requirement.elevation # 0 =>
        activity.total_elevation_gain >= quest.requirement.elevation)

RECURSIVE checkDailyQuestsLoop(_, _, _, _, _)
checkDailyQuestsLoop(activeQuests, i, activity, completedQuestsToday, acc) ==
  IF i > Len(activeQuests) THEN acc
  ELSE LET quest == activeQuests[i]
       IN IF includes(completedQuestsToday, quest.id)
          THEN checkDailyQuestsLoop(activeQuests, i + 1, activity, completedQuestsToday, acc)
          ELSE IF questCompleted(quest, activity)
          THEN checkDailyQuestsLoop(activeQuests, i + 1, activity, completedQuestsToday,
                 [completedQuests |-> Append(acc.completedQuests, quest.id),
                  bonusXP |-> acc.bonusXP + quest.reward])
          ELSE checkDailyQuestsLoop(activeQuests, i + 1, activity, completedQuestsToday, acc)

checkDailyQuests(activity, activityDate, completedQuestsToday) ==
  checkDailyQuestsLoop(getActiveDailyQuests(activityDate), 1, activity, completedQuestsToday,
                       [completedQuests |-> << >>, bonusXP |-> 0])

----------------------------------------------------------------------------
(* The game profile document; NoGame is a user document without a game field *)

NoGame == [exists |-> FALSE]

\* the quadratic variant's initial profile, which has no daily fields
initializeGameProfileQuad ==
  [totalXP |-> 0, level |-> 1, currentLevelXP |-> 0,
   nextLevelXP |-> getXPRequiredForLevelQuad(2),
   streakCount |-> 0, streakActive |-> FALSE, lastActivityDate |-> NoDate,
   tier |-> "Novice"]

\* an initial profile that already counts one day of streak
initializeGameProfileStreakOne ==
  [totalXP |-> 0, level |-> 1, currentLevelXP |-> 0,
   nextLevelXP |-> getXPRequiredForLevel(2),
   streakCount |-> 1, streakActive |-> FALSE, lastActivityDate |-> NoDate,
   dailyXPEarned |-> 0, dailyXPResetDate |-> NoDate, tier |-> "Novice",
   completedQuestsToday |-> << >>, questResetDate |-> NoDate]

initializeGameProfile ==
  [totalXP |-> 0, level |-> 1, currentLevelXP |-> 0,
   nextLevelXP |-> getXPRequiredForLevel(2),
   streakCount |-> 0, streakActive |-> FALSE, lastActivityDate |-> NoDate,
   dailyXPEarned |-> 0, dailyXPResetDate |-> NoDate, tier |-> "Novice",
   completedQuestsToday |-> << >>, questResetDate |-> NoDate]

Max(a, b) == IF a >= b THEN a ELSE b

\* a daily cap that also clamps an award that exactly reaches the cap and
\* does not stop at zero
applyDailyCapOff(isToday, dailyXPEarned, totalXP) ==
  IF isToday /\ dailyXPEarned + totalXP >= DAILY_XP_CAP
  THEN [totalXP |-> DAILY_XP_CAP - dailyXPEarned, capped |-> TRUE]
  ELSE [totalXP |-> totalXP, capped |-> FALSE]

\* "Apply daily cap"
applyDailyCap(isToday, dailyXPEarned, totalXP) ==
  IF isToday /\ dailyXPEarned + totalXP > DAILY_XP_CAP
  THEN [totalXP |-> Max(0, DAILY_XP_CAP - dailyXPEarned), capped |-> TRUE]
  ELSE [totalXP |-> totalXP, capped |-> FALSE]

\* a streak flag taken after the activity's own streak update
streakActiveAfterUpdate(gameProfile, activity) ==
  /\ gameProfile # NoGame
  /\ updateStreak(gameProfile.lastActivityDate, gameProfile.streakCount,
                  activity.start_date).streakActive

\* gameProfile?.streakActive, when calculateXP handles the activity
streakActiveOf(gameProfile, activity) == gameProfile # NoGame /\ gameProfile.streakActive

\* calculateXP past the anti-cheat check, on the profile it read; today is
\* new Date() at that moment
xpWithBonuses(gameProfile, activity, today) ==
  LET baseXP == calculateBaseXP(activity)
      activityDate == activity.start_date
      isToday == SameDay(activityDate, today)
      lastResetDate == IF gameProfile = NoGame THEN NoDate ELSE gameProfile.dailyXPResetDate
      dailyXPEarned == IF lastResetDate = NoDate \/ ~SameDay(lastResetDate, today) THEN 0
                       ELSE gameProfile.dailyXPEarned
      streakBonus == IF streakActiveOf(gameProfile, activity)
                     THEN streakBonusOf(baseXP) ELSE 0
      completedQuestsToday == IF gameProfile = NoGame THEN << >>
                              ELSE gameProfile.completedQuestsToday
      quests == checkDailyQuests(activity, activityDate, completedQuestsToday)
      questBonus == quests.bonusXP
      cap == applyDailyCap(isToday, dailyXPEarned, baseXP + streakBonus + questBonus)
  IN [baseXP |-> baseXP, streakBonus |-> streakBonus, questBonus |-> questBonus,
      totalXP |-> cap.totalXP, completedQuests |-> quests.completedQuests,
      capped |-> cap.capped]

\* a calculateXP without the anti-cheat veto
calculateXPNoVeto(gameProfile, activity, today) == xpWithBonuses(gameProfile, activity, today)

calculateXP(gameProfile, activity, today) ==
  IF isSuspiciousSpeed(activity)
  THEN [baseXP |-> 0, streakBonus |-> 0, questBonus |-> 0, totalXP |-> 0,
        completedQuests |-> << >>, capped |-> FALSE]
  ELSE xpWithBonuses(gameProfile, activity, today)

\* updatedGame, from the profile updateGameProfile read; today is new Date() /
\* Timestamp.now() at that moment
updatedGameDoc(currentGame, activity, xpResult, today) ==
  LET newTotalXP == (IF currentGame = NoGame THEN 0 ELSE currentGame.totalXP) + xpResult.totalXP
      lvl == calculateLevel(newTotalXP)
      activityDate == activity.start_date
      streak == updateStreak(IF currentGame = NoGame THEN NoDate ELSE currentGame.lastActivityDate,
                             IF currentGame = NoGame THEN 0 ELSE currentGame.streakCount,
                             activityDate)
      questResetDate == IF currentGame = NoGame THEN NoDate ELSE currentGame.questResetDate
      isNewDay == questResetDate = NoDate \/ ~SameDay(questResetDate, today)
      completedQuestsToday ==
        IF isNewDay THEN xpResult.completedQuests
        ELSE (IF currentGame = NoGame THEN << >> ELSE currentGame.completedQuestsToday)
               \o xpResult.completedQuests
      dailyXPResetDate == IF currentGame = NoGame THEN NoDate ELSE currentGame.dailyXPResetDate
      isDailyReset == dailyXPResetDate = NoDate \/ ~SameDay(dailyXPResetDate, today)
      dailyXPEarned == IF isDailyReset THEN xpResult.totalXP
                       ELSE currentGame.dailyXPEarned + xpResult.totalXP
  IN [totalXP |-> newTotalXP, level |-> lvl.level, currentLevelXP |-> lvl.currentLevelXP,
      nextLevelXP |-> lvl.nextLevelXP,
      streakCount |-> streak.streakCount, streakActive |-> streak.streakActive,
      lastActivityDate |-> activityDate,
      dailyXPEarned |-> dailyXPEarned, dailyXPResetDate |-> today,
      tier |-> getCharacterTier(lvl.level),
      completedQuestsToday |-> completedQuestsToday,
      questResetDate |-> IF isNewDay THEN today ELSE questResetDate]

\* an updateGameProfile that keeps the stored level
updateGameProfileStaleLevel(currentGame, activity, xpResult, today) ==
  [updatedGameDoc(currentGame, activity, xpResult, today) EXCEPT
     !.level = IF currentGame = NoGame THEN 1 ELSE currentGame.level]

\* an updateGameProfile that skips an activity dated like the last one
updateGameProfileOncePerDate(currentGame, activity, xpResult, today) ==
  IF currentGame # NoGame /\ currentGame.lastActivityDate = activity.start_date
  THEN currentGame
  ELSE updatedGameDoc(currentGame, activity, xpResult, today)

\* the document updateGameProfile writes
updateGameProfile(currentGame, activity, xpResult, today) ==
  updatedGameDoc(currentGame, activity, xpResult, today)

----------------------------------------------------------------------------
(* processAndStoreActivity as a state machine.                             *)
(*   now     the wall clock                                                *)
(*   game    the game field of the user document                           *)
(*   stored  the ids of the user's stored activity documents               *)
(*   inv     per invocation: position and local variables                  *)
(*   rewarded  history: the quest rewards granted on the latest processing *)
(*             day, [day, count per quest id]                              *)
(*   storedXP  the sum of the xpEarned fields of the stored activity       *)
(*             documents                                                   *)
(*   call, ret  a single call of one of the pure functions and its result  *)
(*   docs    the stored activity documents by id: the fields the handlers  *)
(*           read back (distance, moving_time, total_elevation_gain) and   *)
(*           xpEarned                                                      *)
(*   stats   the stats field of the user document                          *)

VARIABLES now, game, stored, inv, rewarded, storedXP, call, ret, docs, stats

vars == <<now, game, stored, inv, rewarded, storedXP, call, ret, docs, stats>>

\* a user document without a stats field reads as zeros
NoStats ==
  [totalDistance |-> 0, totalMovingTime |-> 0, totalElevationGain |-> 0,
   activitiesCount |-> 0]

\* no activity document is stored
NoDocs == [id \in {} |-> 0]

\* an updateUserStats that adds whatever the increment flag says
updateUserStatsAlwaysAdd(currentStats, activity, increment) ==
  [totalDistance |-> currentStats.totalDistance + activity.distance,
   totalMovingTime |-> currentStats.totalMovingTime + activity.moving_time,
   totalElevationGain |-> currentStats.totalElevationGain + activity.total_elevation_gain,
   activitiesCount |-> currentStats.activitiesCount + 1]

\* updatedStats of updateUserStats
updateUserStats(currentStats, activity, increment) ==
  LET multiplier == IF increment THEN 1 ELSE -1
  IN [totalDistance |-> currentStats.totalDistance + activity.distance * multiplier,
      totalMovingTime |-> currentStats.totalMovingTime + activity.moving_time * multiplier,
      totalElevationGain |->
        currentStats.totalElevationGain + activity.total_elevation_gain * multiplier,
      activitiesCount |-> currentStats.activitiesCount + 1 * multiplier]

\* the fields of a stored activity document
DocOf(activity, xpEarned) ==
  [distance |-> activity.distance, moving_time |-> activity.moving_time,
   total_elevation_gain |-> activity.total_elevation_gain, xpEarned |-> xpEarned]

\* the xpEarned of the stored document of an id, 0 without one
xpEarnedOf(id) == IF id \in DOMAIN docs THEN docs[id].xpEarned ELSE 0

Procs == {1}
QuestIds == {DAILY_QUESTS[i].id : i \in 1..Len(DAILY_QUESTS)}

\* how many slots before the processing time an activity may have started
DateOffsets == {0, 1}

MkActivity(id, shape, start) ==
  [id |-> id, type |-> shape.type, distance |-> shape.distance,
   moving_time |-> shape.moving_time,
   total_elevation_gain |-> shape.total_elevation_gain, start_date |-> start]

NoActivity ==
  [id |-> 0, type |-> "", distance |-> 0, moving_time |-> 0,
   total_elevation_gain |-> 0, start_date |-> NoDate]

NoResult ==
  [baseXP |-> 0, streakBonus |-> 0, questBonus |-> 0, totalXP |-> 0,
   completedQuests |-> << >>, capped |-> FALSE]

Idle ==
  [pc |-> "idle", activity |-> NoActivity, flagged |-> FALSE, gameProfile |-> NoGame,
   calcToday |-> NoDate, xpResult |-> NoResult, currentGame |-> NoGame,
   updatedGame |-> NoGame, reads |-> 0, writes |-> 0, currentStats |-> NoStats,
   result |-> "none"]

NoCall == [fn |-> "none"]
NoRet == [done |-> FALSE]

Init ==
  /\ now = StartNow
  /\ game = initializeGameProfile
  /\ stored = {}
  /\ inv = [p \in Procs |-> Idle]
  /\ rewarded = [day |-> NoDate, count |-> [q \in QuestIds |-> 0]]
  /\ storedXP = 0
  /\ call = NoCall
  /\ ret = NoRet
  /\ docs = NoDocs
  /\ stats = NoStats

\* time passes; the clock is read by calculateXP and again by updateGameProfile,
\* so only the time between these two reads matters inside an invocation
TickTo(limit) ==
  /\ now < limit
  /\ \A p \in DOMAIN inv : inv[p].pc \in {"idle", "update"}
  /\ now' = now + 1
  /\ UNCHANGED <<game, stored, inv, rewarded, storedXP, call, ret, docs, stats>>

Tick == TickTo(MaxNow)

\* a processAndStoreActivity without the existence check
BeginOfUnchecked(p, ids, shapes) ==
  /\ \A q \in DOMAIN inv : inv[q].pc = "idle"
  /\ \E id \in ids, shape \in shapes, off \in DateOffsets :
       /\ id <= Cardinality(stored) + 1
       /\ now - off >= 0
       /\ inv' = [inv EXCEPT ![p] = [Idle EXCEPT
               !.pc = "calc", !.activity = MkActivity(id, shape, now - off)]]
  /\ UNCHANGED <<now, game, stored, rewarded, storedXP, call, ret, docs, stats>>

\* processAndStoreActivity up to the existence check of the activity document;
\* of an activity that is already stored only the id is read
BeginOf(p, ids, shapes) ==
  /\ \A q \in DOMAIN inv : inv[q].pc = "idle"
  /\ \E id \in ids :
       /\ id <= Cardinality(stored) + 1
       /\ IF id \in stored
          THEN inv' = [inv EXCEPT ![p] = [Idle EXCEPT
                         !.pc = "return", !.result = "false",
                         !.activity = [NoActivity EXCEPT !.id = id]]]
          ELSE \E shape \in shapes, off \in DateOffsets :
                 /\ now - off >= 0
                 /\ inv' = [inv EXCEPT ![p] = [Idle EXCEPT
                         !.pc = "calc", !.activity = MkActivity(id, shape, now - off)]]
  /\ UNCHANGED <<now, game, stored, rewarded, storedXP, call, ret, docs, stats>>

Begin(p) == BeginOf(p, 1..MaxActs, Shapes)

\* the quest rewards of the processing day, after one more award
Reward(today, completedQuests) ==
  LET base == IF rewarded.day # NoDate /\ rewarded.day = DayOf(today) THEN rewarded.count
              ELSE [q \in QuestIds |-> 0]
  IN [day |-> DayOf(today),
      count |-> [q \in QuestIds |-> base[q] + Cardinality({i \in 1..Len(completedQuests) : completedQuests[i] = q})]]

\* await calculateXP(userId, activity)
CalculateXP(p) ==
  /\ inv[p].pc = "calc"
  /\ LET flagged == isSuspiciousSpeed(inv[p].activity)
         xpResult == calculateXP(game, inv[p].activity, now)
     IN /\ inv' = [inv EXCEPT ![p].pc = "update", ![p].flagged = flagged,
                               ![p].gameProfile = IF flagged THEN NoGame ELSE game,
                               ![p].calcToday = now,
                               ![p].xpResult = xpResult,
                               ![p].reads = IF flagged THEN 0 ELSE 1]
        /\ rewarded' = Reward(now, xpResult.completedQuests)
  /\ UNCHANGED <<now, game, stored, storedXP, call, ret, docs, stats>>

\* updateGameProfile: userRef.get() and the computation of updatedGame
UpdateRead(p) ==
  /\ inv[p].pc = "update"
  /\ inv' = [inv EXCEPT ![p].pc = "write", ![p].currentGame = game,
                        ![p].updatedGame =
                           updateGameProfile(game, inv[p].activity, inv[p].xpResult, now),
                        ![p].reads = inv[p].reads + 1]
  /\ UNCHANGED <<now, game, stored, rewarded, storedXP, call, ret, docs, stats>>

\* a write in a transaction: updatedGame is computed again from the game field
\* as it is stored now
userRefUpdateInTransaction(storedGame, i) ==
  updateGameProfile(storedGame, i.activity, i.xpResult, i.updatedGame.dailyXPResetDate)

\* the game field after userRef.update({game: updatedGame}) of invocation i
userRefUpdate(storedGame, i) == i.updatedGame

\* updateGameProfile: userRef.update({game: updatedGame})
UpdateWrite(p) ==
  /\ inv[p].pc = "write"
  /\ game' = userRefUpdate(game, inv[p])
  /\ inv' = [inv EXCEPT ![p].pc = "store", ![p].writes = inv[p].writes + 1]
  /\ UNCHANGED <<now, stored, rewarded, storedXP, call, ret, docs, stats>>

\* activityRef.set(storedActivity)
StoreActivity(p) ==
  /\ inv[p].pc = "store"
  /\ stored' = stored \cup {inv[p].activity.id}
  /\ storedXP' = storedXP - xpEarnedOf(inv[p].activity.id) + inv[p].xpResult.totalXP
  /\ docs' = [id \in DOMAIN docs \cup {inv[p].activity.id} |->
               IF id = inv[p].activity.id
               THEN DocOf(inv[p].activity, inv[p].xpResult.totalXP) ELSE docs[id]]
  /\ inv' = [inv EXCEPT ![p].pc = "stats"]
  /\ UNCHANGED <<now, game, rewarded, call, ret, stats>>

\* updateUserStats(userId, activity, true): userRef.get()
StatsRead(p) ==
  /\ inv[p].pc = "stats"
  /\ inv' = [inv EXCEPT ![p].pc = "statswrite", ![p].currentStats = stats]
  /\ UNCHANGED <<now, game, stored, rewarded, storedXP, call, ret, docs, stats>>

\* updateUserStats(userId, activity, true): userRef.update({stats}); return true
StatsWrite(p) ==
  /\ inv[p].pc = "statswrite"
  /\ stats' = updateUserStats(inv[p].currentStats, inv[p].activity, TRUE)
  /\ inv' = [inv EXCEPT ![p].pc = "return", ![p].result = "true"]
  /\ UNCHANGED <<now, game, stored, rewarded, storedXP, call, ret, docs>>

\* the caller of processAndStoreActivity has its result
ReturnResult(p) ==
  /\ inv[p].pc = "return"
  /\ inv' = [inv EXCEPT ![p] = Idle]
  /\ UNCHANGED <<now, game, stored, rewarded, storedXP, call, ret, docs, stats>>

Next ==
  \/ Tick
  \/ \E p \in Procs : Begin(p)
  \/ \E p \in Procs : CalculateXP(p)
  \/ \E p \in Procs : UpdateRead(p)
  \/ \E p \in Procs : UpdateWrite(p)
  \/ \E p \in Procs : StoreActivity(p)
  \/ \E p \in Procs : StatsRead(p)
  \/ \E p \in Procs : StatsWrite(p)
  \/ \E p \in Procs : ReturnResult(p)

Spec == Init /\ [][Next]_vars

----------------------------------------------------------------------------
(* Several days of activities of one kind, for the streak.                 *)

StreakShapes ==
  { [type |-> "Run", distance |-> 10000, moving_time |-> 3600, total_elevation_gain |-> 0] }

TickStreak == TickTo(MaxStreakNow)

BeginStreak(p) == BeginOf(p, 1..MaxStreakActs, StreakShapes)

NextStreak ==
  \/ TickStreak
  \/ \E p \in Procs : BeginStreak(p)
  \/ \E p \in Procs : CalculateXP(p)
  \/ \E p \in Procs : UpdateRead(p)
  \/ \E p \in Procs : UpdateWrite(p)
  \/ \E p \in Procs : StoreActivity(p)
  \/ \E p \in Procs : StatsRead(p)
  \/ \E p \in Procs : StatsWrite(p)
  \/ \E p \in Procs : ReturnResult(p)

SpecStreak == Init /\ [][NextStreak]_vars

\* the daily cap: a long run and a session without distance or elevation
CapShapes ==
  { [type |-> "Run", distance |-> 150000, moving_time |-> 54000, total_elevation_gain |-> 0],
    [type |-> "Yoga", distance |-> 0, moving_time |-> 3600, total_elevation_gain |-> 0] }

BeginCap(p) == BeginOf(p, 1..MaxCapActs, CapShapes)

NextCap ==
  \/ Tick
  \/ \E p \in Procs : BeginCap(p)
  \/ \E p \in Procs : CalculateXP(p)
  \/ \E p \in Procs : UpdateRead(p)
  \/ \E p \in Procs : UpdateWrite(p)
  \/ \E p \in Procs : StoreActivity(p)
  \/ \E p \in Procs : StatsRead(p)
  \/ \E p \in Procs : StatsWrite(p)
  \/ \E p \in Procs : ReturnResult(p)

SpecCap == Init /\ [][NextCap]_vars

\* webhook events of one user, one at a time: create, update and delete
HookShapes ==
  { [type |-> "Run", distance |-> 10000, moving_time |-> 3600, total_elevation_gain |-> 0],
    [type |-> "Run", distance |-> 5000, moving_time |-> 1800, total_elevation_gain |-> 50] }

\* handleActivityCreate; Strava delivers activities while the profile is
\* below MaxHookXP
BeginHook(p) ==
  /\ game.totalXP < MaxHookXP
  /\ BeginOf(p, 1..MaxHookActs, HookShapes)

\* handleActivityUpdate of a stored activity: the stats lose the stored
\* activity and gain the fresh one, whose fields replace the stored ones
HandleActivityUpdate(id, shape) ==
  /\ \A q \in DOMAIN inv : inv[q].pc = "idle"
  /\ id \in stored
  /\ LET oldActivity == docs[id]
         updatedActivity == MkActivity(id, shape, now)
     IN /\ stats' = updateUserStats(updateUserStats(stats, oldActivity, FALSE),
                                    updatedActivity, TRUE)
        /\ docs' = [docs EXCEPT ![id] = DocOf(updatedActivity, oldActivity.xpEarned)]
  /\ UNCHANGED <<now, game, stored, inv, rewarded, storedXP, call, ret>>

\* handleActivityDelete of a stored activity: the stats lose it and its
\* document is deleted
HandleActivityDelete(id) ==
  /\ \A q \in DOMAIN inv : inv[q].pc = "idle"
  /\ id \in stored
  /\ stats' = updateUserStats(stats, docs[id], FALSE)
  /\ docs' = [i \in DOMAIN docs \ {id} |-> docs[i]]
  /\ stored' = stored \ {id}
  /\ storedXP' = storedXP - xpEarnedOf(id)
  /\ UNCHANGED <<now, game, inv, rewarded, call, ret>>

NextHook ==
  \/ \E p \in Procs : BeginHook(p)
  \/ \E p \in Procs : CalculateXP(p)
  \/ \E p \in Procs : UpdateRead(p)
  \/ \E p \in Procs : UpdateWrite(p)
  \/ \E p \in Procs : StoreActivity(p)
  \/ \E p \in Procs : StatsRead(p)
  \/ \E p \in Procs : StatsWrite(p)
  \/ \E p \in Procs : ReturnResult(p)
  \/ \E id \in 1..MaxHookActs, shape \in HookShapes : HandleActivityUpdate(id, shape)
  \/ \E id \in 1..MaxHookActs : HandleActivityDelete(id)

SpecHook == Init /\ [][NextHook]_vars

----------------------------------------------------------------------------
(* Concurrent invocations of processAndStoreActivity for one user, as the  *)
(* webhook handler and the manual sync start them.                         *)

ConcProcs == {1, 2}

InitConc ==
  /\ now = StartNow
  /\ game = initializeGameProfile
  /\ stored = {}
  /\ inv = [p \in ConcProcs |-> Idle]
  /\ rewarded = [day |-> NoDate, count |-> [q \in QuestIds |-> 0]]
  /\ storedXP = 0
  /\ call = NoCall
  /\ ret = NoRet
  /\ docs = NoDocs
  /\ stats = NoStats

\* the ids of the activities being processed
InFlight == {inv[q].activity.id : q \in {r \in DOMAIN inv : inv[r].pc # "idle"}}

\* processAndStoreActivity of an activity that is neither stored nor being
\* processed, up to the existence check
BeginConc(p) ==
  /\ inv[p].pc = "idle"
  /\ \E id \in 1..MaxConcActs, shape \in Shapes :
       /\ id = Cardinality(stored \cup InFlight) + 1
       /\ inv' = [inv EXCEPT ![p] = [Idle EXCEPT
                     !.pc = "calc", !.activity = MkActivity(id, shape, now)]]
  /\ UNCHANGED <<now, game, stored, rewarded, storedXP, call, ret, docs, stats>>

NextConc ==
  \/ \E p \in ConcProcs : BeginConc(p)
  \/ \E p \in ConcProcs : CalculateXP(p)
  \/ \E p \in ConcProcs : UpdateRead(p)
  \/ \E p \in ConcProcs : UpdateWrite(p)
  \/ \E p \in ConcProcs : StoreActivity(p)
  \/ \E p \in ConcProcs : StatsRead(p)
  \/ \E p \in ConcProcs : StatsWrite(p)
  \/ \E p \in ConcProcs : ReturnResult(p)

SpecConc == InitConc /\ [][NextConc]_vars

----------------------------------------------------------------------------
(* Concurrent deliveries of the same activity: a webhook create event and  *)
(* a manual sync, or a repeated webhook, each call processAndStoreActivity *)
(* with the activity Strava returns for the id.                            *)

\* processAndStoreActivity of any activity, up to the existence check
BeginDup(p) ==
  /\ inv[p].pc = "idle"
  /\ \E id \in 1..MaxDupActs, shape \in StreakShapes :
       IF id \in stored
       THEN inv' = [inv EXCEPT ![p] = [Idle EXCEPT
                      !.pc = "return", !.result = "false",
                      !.activity = [NoActivity EXCEPT !.id = id]]]
       ELSE inv' = [inv EXCEPT ![p] = [Idle EXCEPT
                      !.pc = "calc", !.activity = MkActivity(id, shape, now)]]
  /\ UNCHANGED <<now, game, stored, rewarded, storedXP, call, ret, docs, stats>>

NextDup ==
  \/ \E p \in ConcProcs : BeginDup(p)
  \/ \E p \in ConcProcs : CalculateXP(p)
  \/ \E p \in ConcProcs : UpdateRead(p)
  \/ \E p \in ConcProcs : UpdateWrite(p)
  \/ \E p \in ConcProcs : StoreActivity(p)
  \/ \E p \in ConcProcs : StatsRead(p)
  \/ \E p \in ConcProcs : StatsWrite(p)
  \/ \E p \in ConcProcs : ReturnResult(p)

SpecDup == InitConc /\ [][NextDup]_vars

----------------------------------------------------------------------------
(* The pure functions on their own: one call, drawn from the probes, and   *)
(* its result.                                                             *)

Variants == {"powerlaw", "quadratic"}
ProbeTypes == {"Run", "VirtualRun", "TrailRun", "Ride", "Walk", "Swim"}

\* a persisted profile as calculateXP may find it
ProbeProfile(totalXP, streakActive, dailyXPEarned, dailyXPResetDate, completed) ==
  LET lvl == calculateLevel(totalXP)
  IN [totalXP |-> totalXP, level |-> lvl.level, currentLevelXP |-> lvl.currentLevelXP,
      nextLevelXP |-> lvl.nextLevelXP,
      streakCount |-> IF streakActive THEN STREAK_THRESHOLD ELSE 1,
      streakActive |-> streakActive, lastActivityDate |-> StartNow - 1,
      dailyXPEarned |-> dailyXPEarned, dailyXPResetDate |-> dailyXPResetDate,
      tier |-> getCharacterTier(lvl.level),
      completedQuestsToday |-> completed,
      questResetDate |-> dailyXPResetDate]

ProbeProfiles ==
  {NoGame} \cup
  { ProbeProfile(2000, a, d, r, c) :
      a \in BOOLEAN, d \in {0, 400, 450, 600},
      r \in {StartNow - 1, StartNow},
      c \in {<< >>, <<"WEEKEND_WARRIOR">>, <<"DISTANCE_RUNNER">>} }

ProbeActivities ==
  { [id |-> 1, type |-> t, distance |-> x[1], moving_time |-> x[2],
     total_elevation_gain |-> g, start_date |-> d] :
      t \in {"Run", "Ride"},
      x \in {<<0, 600>>, <<10000, 3600>>, <<10000, 1200>>, <<57000, 8208>>, <<5000, 1800>>},
      g \in {0, 50}, d \in {StartNow - 1, StartNow} }

\* the engine alone: activities dated before, at and after the profile's last
\* activity
EngineActivities ==
  ProbeActivities \cup
  { [id |-> 1, type |-> "Run", distance |-> 10000, moving_time |-> 3600,
     total_elevation_gain |-> 0, start_date |-> d] :
      d \in {StartNow - 2, StartNow - 1 - SlotsPerDay, StartNow - 1 + SlotsPerDay} }

LevelCalls == [fn : {"calculateLevel"}, variant : Variants, totalXP : 0..MaxProbeXP]
RequiredCalls == [fn : {"getXPRequiredForLevel"}, variant : Variants, level : (-1)..MaxProbeLevel]
SpeedCalls ==
  { [fn |-> "isSuspiciousSpeed",
     activity |-> [id |-> 1, type |-> t, distance |-> x[1], moving_time |-> x[2],
                   total_elevation_gain |-> 0, start_date |-> StartNow]] :
      t \in ProbeTypes, x \in SpeedProbes }
XPCalls ==
  [fn : {"calculateXP"}, gameProfile : ProbeProfiles, activity : ProbeActivities,
   today : {StartNow, StartNow + 1}]

\* updateStreak: no or some last activity, up to a day after or three days
\* before the activity
StreakCalls ==
  [fn : {"updateStreak"},
   lastActivityDate : {NoDate} \cup (StartNow..(StartNow + SlotsPerDay)),
   currentStreakCount : 0..(STREAK_THRESHOLD + 1),
   currentActivityDate : (StartNow - SlotsPerDay)..(StartNow + 3 * SlotsPerDay)]

\* calculateBaseXP: a type of every classification set and two of none, with
\* and without distance, moving time and elevation gain
BaseProbeTypes ==
  {"Run", "TrailRun", "Walk", "Hike", "NordicSki", "AlpineSki", "Ride", "Swim",
   "Workout", "Crossfit", "Yoga", "RockClimbing", "Kayaking", "Golf"}
BaseProbeActivities ==
  { [id |-> 1, type |-> t, distance |-> d, moving_time |-> m,
     total_elevation_gain |-> g, start_date |-> StartNow] :
      t \in BaseProbeTypes, d \in {0, 290, 550, 1000, 5000}, m \in {0, 90, 1800},
      g \in {0, 15, 50} }
BaseCalls == [fn : {"calculateBaseXP"}, variant : Variants, activity : BaseProbeActivities]

\* checkDailyQuests: around both requirements, on every weekday, with every
\* quest completed or not
QuestCalls ==
  { [fn |-> "checkDailyQuests",
     activity |-> [id |-> 1, type |-> "Run", distance |-> d, moving_time |-> 3600,
                   total_elevation_gain |-> g, start_date |-> StartNow + k * SlotsPerDay],
     completedQuestsToday |-> c] :
      d \in {0, 4999, 5000, 9999, 10000}, g \in {0, 49, 50}, k \in 0..6,
      c \in {<< >>, <<"DISTANCE_RUNNER">>, <<"HILL_CLIMBER">>, <<"WEEKEND_WARRIOR">>,
              <<"HILL_CLIMBER", "DISTANCE_RUNNER">>} }

EngineCalls ==
  [fn : {"engine"}, gameProfile : ProbeProfiles, activity : EngineActivities,
   today : {StartNow, StartNow + 1}]

Calls == LevelCalls \cup RequiredCalls \cup SpeedCalls \cup XPCalls \cup StreakCalls
           \cup BaseCalls \cup EngineCalls \cup QuestCalls

InitPure ==
  /\ now = StartNow
  /\ game = initializeGameProfile
  /\ stored = {}
  /\ inv = [p \in Procs |-> Idle]
  /\ rewarded = [day |-> NoDate, count |-> [q \in QuestIds |-> 0]]
  /\ storedXP = 0
  /\ call \in Calls
  /\ ret = NoRet
  /\ docs = NoDocs
  /\ stats = NoStats

Return(val) ==
  /\ ~ret.done
  /\ ret' = [done |-> TRUE, val |-> val]
  /\ UNCHANGED <<now, game, stored, inv, rewarded, storedXP, call, docs, stats>>

ApplyGetXPRequiredForLevel ==
  /\ call.fn = "getXPRequiredForLevel"
  /\ Return(IF call.variant = "powerlaw" THEN getXPRequiredForLevel(call.level)
            ELSE getXPRequiredForLevelQuad(call.level))

ApplyCalculateLevel ==
  /\ call.fn = "calculateLevel"
  /\ Return(IF call.variant = "powerlaw" THEN calculateLevel(call.totalXP)
            ELSE calculateLevelQuad(call.totalXP))

ApplyIsSuspiciousSpeed ==
  /\ call.fn = "isSuspiciousSpeed"
  /\ Return(isSuspiciousSpeed(call.activity))

ApplyCalculateXP ==
  /\ call.fn = "calculateXP"
  /\ Return(calculateXP(call.gameProfile, call.activity, call.today))

ApplyUpdateStreak ==
  /\ call.fn = "updateStreak"
  /\ Return(updateStreak(call.lastActivityDate, call.currentStreakCount,
                         call.currentActivityDate))

ApplyCalculateBaseXP ==
  /\ call.fn = "calculateBaseXP"
  /\ Return(IF call.variant = "quadratic" THEN calculateBaseXPQuad(call.activity)
            ELSE calculateBaseXP(call.activity))

\* the runs of the engine so far
EngineRuns == IF call.fn = "engine" /\ "val" \in DOMAIN ret THEN ret.val ELSE << >>

\* the profile the next engine run reads: the one of the call, then the one
\* the run before wrote
EngineProfile ==
  IF EngineRuns = << >> THEN call.gameProfile ELSE EngineRuns[Len(EngineRuns)].game

\* calculateXP on the activity record, at most twice, without the existence
\* check of the stored activity
EngineCalculateXP ==
  /\ call.fn = "engine"
  /\ "xpResult" \notin DOMAIN ret
  /\ Len(EngineRuns) < 2
  /\ ret' = [done |-> FALSE, val |-> EngineRuns,
             xpResult |-> calculateXP(EngineProfile, call.activity, call.today)]
  /\ UNCHANGED <<now, game, stored, inv, rewarded, storedXP, call, docs, stats>>

\* updateGameProfile with the award of the calculateXP before it
EngineUpdateGameProfile ==
  /\ call.fn = "engine"
  /\ "xpResult" \in DOMAIN ret
  /\ ret' = [done |-> TRUE,
             val |-> Append(ret.val,
                      [xpResult |-> ret.xpResult,
                       game |-> updateGameProfile(EngineProfile, call.activity,
                                                  ret.xpResult, call.today)])]
  /\ UNCHANGED <<now, game, stored, inv, rewarded, storedXP, call, docs, stats>>

ApplyCheckDailyQuests ==
  /\ call.fn = "checkDailyQuests"
  /\ Return(checkDailyQuests(call.activity, call.activity.start_date,
                             call.completedQuestsToday))

NextPure ==
  \/ ApplyCheckDailyQuests
  \/ EngineCalculateXP
  \/ EngineUpdateGameProfile
  \/ ApplyCalculateBaseXP
  \/ ApplyUpdateStreak
  \/ ApplyGetXPRequiredForLevel
  \/ ApplyCalculateLevel
  \/ ApplyIsSuspiciousSpeed
  \/ ApplyCalculateXP

SpecPure == InitPure /\ [][NextPure]_vars

TypeOK ==
  /\ now >= StartNow
  /\ storedXP >= 0
  /\ game.totalXP >= 0
  /\ stored \subseteq 1..MaxActs

----------------------------------------------------------------------------
(* Properties *)

Required(variant, level) ==
  IF variant = "powerlaw" THEN getXPRequiredForLevel(level)
  ELSE getXPRequiredForLevelQuad(level)

Returned(fn) == call.fn = fn /\ ret.done

\* the quest of DAILY_QUESTS that the activity satisfies on its own date
Qualifies(quest, activity) ==
  /\ getDay(activity.start_date) \in quest.activeDays
  /\ questCompleted(quest, activity)

Quests == {DAILY_QUESTS[i] : i \in 1..Len(DAILY_QUESTS)}

\* C1: the stored snapshot is always consistent with its totalXP: level,
\* currentLevelXP and nextLevelXP are those of calculateLevel(totalXP),
\* currentLevelXP + getXPRequiredForLevel(level) = totalXP, and the tier is
\* getCharacterTier(level)
C1_SnapshotConsistent ==
  LET l == calculateLevel(game.totalXP)
  IN /\ game.level = l.level
     /\ game.currentLevelXP = l.currentLevelXP
     /\ game.nextLevelXP = l.nextLevelXP
     /\ game.currentLevelXP + getXPRequiredForLevel(game.level) = game.totalXP
     /\ game.tier = getCharacterTier(game.level)

\* C1 witness: processed activities have raised the character to a higher tier
C1_Witness == stored # {} /\ game.level >= 5 /\ game.tier = "Apprentice"

\* C2: calculateLevel(totalXP) returns the unique level L >= 1 with
\* required(L) <= totalXP < required(L+1), 0 <= currentLevelXP < nextLevelXP,
\* currentLevelXP = totalXP - required(L), nextLevelXP = required(L+1) - required(L)
C2_LevelResolved ==
  Returned("calculateLevel") =>
    LET r == ret.val
        v == call.variant
    IN /\ r.level >= 1
       /\ Required(v, r.level) <= call.totalXP
       /\ call.totalXP < Required(v, r.level + 1)
       /\ \A L \in 1..MaxProbeLevel :
            (Required(v, L) <= call.totalXP /\ call.totalXP < Required(v, L + 1))
              => L = r.level
       /\ 0 <= r.currentLevelXP
       /\ r.currentLevelXP < r.nextLevelXP
       /\ r.currentLevelXP = call.totalXP - Required(v, r.level)
       /\ r.nextLevelXP = Required(v, r.level + 1) - Required(v, r.level)

\* C2 witness: a total that lies exactly on the threshold of a level above 2
C2_Witness ==
  /\ Returned("calculateLevel")
  /\ ret.val.level >= 3
  /\ ret.val.currentLevelXP = 0

\* C3: getXPRequiredForLevel is 0 for level <= 1, strictly increasing from
\* level 1 on, floor(100 L^2 + 300 L) in the quadratic variant and
\* floor(500 L^1.5) in the power-law variant
C3_RequiredIncreasing ==
  Returned("getXPRequiredForLevel") =>
    LET L == call.level
        r == ret.val
    IN /\ (L <= 1 => r = 0)
       /\ (L >= 1 => r < Required(call.variant, L + 1))
       /\ (L >= 2 /\ call.variant = "quadratic" => r = 100 * L * L + 300 * L)
       /\ (L >= 2 /\ call.variant = "powerlaw" =>
             /\ r * r <= 250000 * L * L * L
             /\ (r + 1) * (r + 1) > 250000 * L * L * L)

\* C3 witness: the requirement of a level above 1 has been computed
C3_Witness == Returned("getXPRequiredForLevel") /\ call.level >= 2 /\ ret.val > 0

\* C4: processing an activity flagged by the anti-cheat filter leaves the
\* persisted snapshot completely unchanged
C4_FlaggedLeavesSnapshot ==
  \A p \in DOMAIN inv :
    (inv[p].pc = "store" /\ inv[p].flagged) => game = inv[p].currentGame

\* C5: for a flagged activity calculateXP returns the zero award, whatever the
\* snapshot
C5_FlaggedZeroAward ==
  (Returned("calculateXP") /\ isSuspiciousSpeed(call.activity)) =>
    ret.val = [baseXP |-> 0, streakBonus |-> 0, questBonus |-> 0, totalXP |-> 0,
               completedQuests |-> << >>, capped |-> FALSE]

\* C5 witness: a flagged activity that meets an active, not yet completed quest,
\* processed while the persisted streak is active
C5_Witness ==
  /\ Returned("calculateXP")
  /\ isSuspiciousSpeed(call.activity)
  /\ call.gameProfile # NoGame
  /\ call.gameProfile.streakActive
  /\ \E quest \in Quests :
       /\ Qualifies(quest, call.activity)
       /\ ~includes(call.gameProfile.completedQuestsToday, quest.id)
  /\ ret.val.totalXP = 0

\* C6: isSuspiciousSpeed is true exactly when distance and moving time are not
\* 0, the type is a running type and distance * 3600 > 25 * 1000 * moving_time;
\* in particular a run at exactly 25 km/h is not flagged
C6_SuspiciousIffFaster ==
  Returned("isSuspiciousSpeed") =>
    LET a == call.activity
    IN ret.val <=> (/\ a.distance # 0
                    /\ a.moving_time # 0
                    /\ a.type \in {"Run", "VirtualRun", "TrailRun"}
                    /\ a.distance * 3600 > 25 * 1000 * a.moving_time)

\* C7: the XP earned within one calendar day, as stored in dailyXPEarned, never
\* exceeds DAILY_XP_CAP
C7_DailyCapBounds == game.dailyXPEarned <= DAILY_XP_CAP

\* the dailyXPEarned that calculateXP works with: 0 unless the stored counter
\* was last reset today
EffectiveDaily(gameProfile, today) ==
  IF gameProfile = NoGame THEN 0
  ELSE IF gameProfile.dailyXPResetDate = NoDate THEN 0
  ELSE IF ~SameDay(gameProfile.dailyXPResetDate, today) THEN 0
  ELSE gameProfile.dailyXPEarned

\* C8: if the activity is dated today and dailyXPEarned + (baseXP + streakBonus
\* + questBonus) > cap, totalXP = max(0, cap - dailyXPEarned) and capped;
\* otherwise totalXP is the full sum and not capped; the components are
\* reported unclamped
C8_CapClampsSum ==
  (Returned("calculateXP") /\ ~isSuspiciousSpeed(call.activity)) =>
    LET r == ret.val
        sum == r.baseXP + r.streakBonus + r.questBonus
        daily == EffectiveDaily(call.gameProfile, call.today)
        over == SameDay(call.activity.start_date, call.today) /\ daily + sum > 500
    IN /\ r.capped = over
       /\ r.totalXP = IF over THEN (IF 500 - daily > 0 THEN 500 - daily ELSE 0) ELSE sum
       /\ r.baseXP = calculateBaseXP(call.activity)
       /\ r.questBonus =
            checkDailyQuests(call.activity, call.activity.start_date,
              IF call.gameProfile = NoGame THEN << >>
              ELSE call.gameProfile.completedQuestsToday).bonusXP
       /\ r.streakBonus =
            IF call.gameProfile # NoGame /\ call.gameProfile.streakActive
            THEN streakBonusOf(r.baseXP) ELSE 0

\* C8 witness: 450 XP earned today, an award of 100 before capping, 50 after
C8_Witness ==
  /\ Returned("calculateXP")
  /\ EffectiveDaily(call.gameProfile, call.today) = 450
  /\ ret.val.baseXP + ret.val.streakBonus + ret.val.questBonus = 100
  /\ ret.val.totalXP = 50
  /\ ret.val.capped

\* C9: a quest is rewarded at most once per processing day, and
\* completedQuestsToday never holds a quest id twice
C9_QuestOncePerDay ==
  /\ \A q \in QuestIds : rewarded.count[q] <= 1
  /\ \A i, j \in 1..Len(game.completedQuestsToday) :
       game.completedQuestsToday[i] = game.completedQuestsToday[j] => i = j

\* C9 witness: a later activity of the same day that meets a quest already
\* rewarded that day, and gets no bonus for it
C9_Witness ==
  \E p \in DOMAIN inv :
    /\ inv[p].pc = "update"
    /\ ~inv[p].flagged
    /\ rewarded.day = DayOf(inv[p].calcToday)
    /\ \E quest \in Quests :
         /\ Qualifies(quest, inv[p].activity)
         /\ rewarded.count[quest.id] = 1
         /\ includes(inv[p].gameProfile.completedQuestsToday, quest.id)
         /\ ~includes(inv[p].xpResult.completedQuests, quest.id)
         /\ inv[p].xpResult.questBonus = 0

\* C10: a quest completed on an earlier day is completed again, with its
\* reward, by the first qualifying activity processed on a later day on which
\* the quest is active
C10_QuestResetBeforeEvaluation ==
  \A p \in DOMAIN inv :
    (inv[p].pc = "update" /\ ~inv[p].flagged /\ inv[p].gameProfile # NoGame) =>
      \A quest \in Quests :
        ( /\ Qualifies(quest, inv[p].activity)
          /\ SameDay(inv[p].activity.start_date, inv[p].calcToday)
          /\ includes(inv[p].gameProfile.completedQuestsToday, quest.id)
          /\ inv[p].gameProfile.questResetDate # NoDate
          /\ DayOf(inv[p].gameProfile.questResetDate) < DayOf(inv[p].calcToday) )
        => /\ includes(inv[p].xpResult.completedQuests, quest.id)
           /\ inv[p].xpResult.questBonus >= quest.reward

\* C11: the streak bonus of an activity is decided by the streakActive flag
\* that was persisted before the activity was processed: without the flag the
\* bonus is 0, also for the activity that raises streakCount from 2 to 3, and
\* with the flag the bonus is granted, also to the activity that breaks the
\* streak
C11_BonusFromPersistedFlag ==
  \A p \in DOMAIN inv :
    (inv[p].pc \in {"update", "write", "store"} /\ ~inv[p].flagged) =>
      LET i == inv[p]
          persisted == i.gameProfile # NoGame /\ i.gameProfile.streakActive
      IN /\ (~persisted => i.xpResult.streakBonus = 0)
         /\ (persisted /\ i.xpResult.baseXP >= 10 => i.xpResult.streakBonus > 0)
         /\ (i.pc = "store" /\ i.currentGame.streakCount = 2 /\ game.streakCount = 3
               => i.xpResult.streakBonus = 0 /\ game.streakActive)
         /\ (i.pc = "store" /\ persisted /\ game.streakCount = 1
               => i.xpResult.streakBonus > 0 /\ ~game.streakActive)

\* C11 witness: the streak was active, the activity came after a gap, got the
\* bonus and reset the streak
C11_Witness ==
  \E p \in DOMAIN inv :
    /\ inv[p].pc = "store"
    /\ inv[p].gameProfile # NoGame
    /\ inv[p].gameProfile.streakActive
    /\ inv[p].gameProfile.streakCount >= 3
    /\ inv[p].xpResult.streakBonus > 0
    /\ game.streakCount = 1
    /\ ~game.streakActive

\* C12: with the persisted streakActive the streak bonus is floor(baseXP / 5)
\* (20 for baseXP 100, 120 for 600), and 0 without it or without a profile
C12_StreakBonusFifth ==
  (Returned("calculateXP") /\ ~isSuspiciousSpeed(call.activity)) =>
    ret.val.streakBonus =
      IF call.gameProfile # NoGame /\ call.gameProfile.streakActive
      THEN ret.val.baseXP \div 5 ELSE 0

\* the whole days from timestamp a to timestamp b are d
WholeDays(a, b, d) == d * SlotsPerDay <= b - a /\ b - a < (d + 1) * SlotsPerDay

\* C13: updateStreak returns (1, false) without a prior timestamp, (count,
\* count >= 3) for a day-difference of 0, (count + 1, count + 1 >= 3) for 1 and
\* (1, false) for more; four activities on consecutive days give the counts
\* 1, 2, 3, 4, active from 3 on, and a gap of two days resets to (1, false)
C13_StreakCases ==
  Returned("updateStreak") =>
    LET last == call.lastActivityDate
        count == call.currentStreakCount
        date == call.currentActivityDate
        r == ret.val
        day == SlotsPerDay
        s2 == updateStreak(date, r.streakCount, date + day)
        s3 == updateStreak(date + day, s2.streakCount, date + 2 * day)
        s4 == updateStreak(date + 2 * day, s3.streakCount, date + 3 * day)
        s5 == updateStreak(date + 3 * day, s4.streakCount, date + 5 * day)
    IN /\ (last = NoDate => r = [streakCount |-> 1, streakActive |-> FALSE])
       /\ (last # NoDate /\ WholeDays(last, date, 0)
             => r = [streakCount |-> count, streakActive |-> count >= 3])
       /\ (last # NoDate /\ WholeDays(last, date, 1)
             => r = [streakCount |-> count + 1, streakActive |-> count + 1 >= 3])
       /\ (last # NoDate /\ date - last >= 2 * SlotsPerDay
             => r = [streakCount |-> 1, streakActive |-> FALSE])
       /\ (last = NoDate =>
             /\ <<r.streakCount, s2.streakCount, s3.streakCount, s4.streakCount>>
                  = <<1, 2, 3, 4>>
             /\ <<r.streakActive, s2.streakActive, s3.streakActive, s4.streakActive>>
                  = <<FALSE, FALSE, TRUE, TRUE>>
             /\ s5 = [streakCount |-> 1, streakActive |-> FALSE])

\* C13 witness: the activity of the third consecutive day activates the streak
C13_Witness ==
  /\ Returned("updateStreak")
  /\ call.lastActivityDate # NoDate
  /\ call.currentActivityDate - call.lastActivityDate = SlotsPerDay
  /\ call.currentStreakCount = 2
  /\ ret.val = [streakCount |-> 3, streakActive |-> TRUE]

\* C14: for activities in chronological order the streak follows the calendar:
\* the same calendar day leaves streakCount unchanged, the calendar day after
\* the last activity's day adds 1 whatever the times of day, and a later day
\* resets streakCount to 1
C14_CalendarDays ==
  ( /\ Returned("updateStreak")
    /\ call.lastActivityDate # NoDate
    /\ call.currentActivityDate >= call.lastActivityDate ) =>
    LET lastDay == DayOf(call.lastActivityDate)
        day == DayOf(call.currentActivityDate)
    IN ret.val.streakCount =
         IF day = lastDay THEN call.currentStreakCount
         ELSE IF day = lastDay + 1 THEN call.currentStreakCount + 1
         ELSE 1

\* the per-km rate the quadratic variant's documentation gives an activity type
QuadPerKmRate(type) ==
  IF type \in {"Run", "VirtualRun", "TrailRun"} THEN 100
  ELSE IF type \in {"Walk", "Hike"} THEN 50
  ELSE IF type \in {"NordicSki", "BackcountrySki"} THEN 50
  ELSE IF type \in {"AlpineSki", "Snowboard"} THEN 10
  ELSE IF type \in {"Ride", "VirtualRide", "EBikeRide", "MountainBikeRide"} THEN 25
  ELSE IF type = "Swim" THEN 500
  ELSE 0

\* the per-minute rate the quadratic variant's documentation gives a type
QuadPerMinRate(type) ==
  IF type \in {"Workout", "WeightTraining", "Crossfit"} THEN 10
  ELSE IF type \in {"Yoga", "Elliptical", "StairStepper", "RockClimbing"} THEN 5
  ELSE 0

\* C15: in the quadratic variant a distance-based type with distance > 0 gets
\* floor(distance / 1000 * perKmRate + 2 * elevation gain), in the engine's
\* double arithmetic, with the rate of the first matching type set; a Run of
\* 5000 m with 50 m gain yields 600, and the moving time changes nothing
C15_DistanceXPQuad ==
  ( /\ Returned("calculateBaseXP")
    /\ call.variant = "quadratic"
    /\ QuadPerKmRate(call.activity.type) > 0
    /\ call.activity.distance > 0 ) =>
    LET a == call.activity
        km == FQuot(FOfInt(a.distance), ToDouble(1000))
        xp == FMul(km, ToDouble(QuadPerKmRate(a.type)))
    IN /\ ret.val = FFloor(FAdd(xp, FOfInt(a.total_elevation_gain * 2)))
       /\ (a.type = "Run" /\ a.distance = 5000 /\ a.total_elevation_gain = 50
             => ret.val = 600)
       /\ ret.val = calculateBaseXPQuad([a EXCEPT !.moving_time = 0])

\* C15 witness: a Run of 5000 m with 50 m gain and a moving time yields 600
C15_Witness ==
  /\ Returned("calculateBaseXP")
  /\ call.variant = "quadratic"
  /\ call.activity.type = "Run"
  /\ call.activity.distance = 5000
  /\ call.activity.total_elevation_gain = 50
  /\ call.activity.moving_time > 0
  /\ ret.val = 600

\* the activity's type is in none of the variant's classification sets
Unclassified(variant, type) ==
  IF variant = "quadratic"
  THEN QuadPerKmRate(type) = 0 /\ QuadPerMinRate(type) = 0
  ELSE type \notin RUNNING_TYPES \cup CYCLING_TYPES

\* C16 as stated: an activity whose type is in none of the classification sets
\* receives no XP for distance or time, so its baseXP is exactly the elevation
\* bonus
C16_UnknownTypeElevationOnly ==
  ( /\ Returned("calculateBaseXP")
    /\ Unclassified(call.variant, call.activity.type) ) =>
    ret.val = IF call.variant = "quadratic"
              THEN call.activity.total_elevation_gain * 2
              ELSE call.activity.total_elevation_gain \div 10

\* C16 amended: an unclassified type gets exactly the elevation bonus in the
\* quadratic variant, and in the power-law variant the base XP of a Run of the
\* same distance and elevation gain, whatever its moving time
C16_UnknownTypeDefault ==
  ( /\ Returned("calculateBaseXP")
    /\ Unclassified(call.variant, call.activity.type) ) =>
    LET a == call.activity
    IN IF call.variant = "quadratic"
       THEN ret.val = a.total_elevation_gain * 2
       ELSE /\ ret.val = calculateBaseXP([a EXCEPT !.type = "Run"])
            /\ ret.val = calculateBaseXP([a EXCEPT !.moving_time = 0])
            /\ (a.distance = 5000 /\ a.total_elevation_gain = 0 => ret.val = 50)

\* C16 witness: an unclassified type gets the running rate in the power-law
\* variant
C16_Witness ==
  /\ Returned("calculateBaseXP")
  /\ call.variant = "powerlaw"
  /\ call.activity.type = "Kayaking"
  /\ call.activity.distance = 5000
  /\ call.activity.moving_time > 0
  /\ call.activity.total_elevation_gain = 0
  /\ ret.val = 50

\* C17: in the quadratic variant a workout or yoga type with moving_time > 0
\* gets floor(moving_time / 60 * rate + 2 * elevation gain) with rate 10 or 5,
\* also when it reports a distance; without moving time, and for every other
\* type, no time-based XP is awarded, so a distance-based type with distance 0
\* gets the elevation bonus only
C17_TimeXPQuad ==
  (Returned("calculateBaseXP") /\ call.variant = "quadratic") =>
    LET a == call.activity
        perMin == QuadPerMinRate(a.type)
        elevationXP == a.total_elevation_gain * 2
    IN /\ (perMin > 0 /\ a.moving_time > 0
             => ret.val = (a.moving_time * perMin) \div 60 + elevationXP)
       /\ (perMin > 0 /\ a.moving_time = 0 => ret.val = elevationXP)
       /\ (perMin = 0
             => ret.val = calculateBaseXPQuad([a EXCEPT !.moving_time = 0]))
       /\ (perMin = 0 /\ a.distance = 0 => ret.val = elevationXP)

\* C17 witness: a workout that reports a distance gets its time-based XP
C17_Witness ==
  /\ Returned("calculateBaseXP")
  /\ call.variant = "quadratic"
  /\ call.activity.type = "Workout"
  /\ call.activity.distance = 5000
  /\ call.activity.moving_time = 1800
  /\ call.activity.total_elevation_gain = 15
  /\ ret.val = 330

\* C18: in the power-law variant the elevation bonus is floor(elevation / 10)
\* * XP_PER_10M_ELEVATION before it is added, so baseXP = floor(distanceXP +
\* floor(elevation / 10) * rate); a Run of 550 m with 15 m gain yields 6
C18_ElevationFlooredFirst ==
  ( /\ Returned("calculateBaseXP")
    /\ call.variant = "powerlaw"
    /\ call.activity.type \in RUNNING_TYPES \cup CYCLING_TYPES ) =>
    LET a == call.activity
        rate == IF a.type \in RUNNING_TYPES THEN 10 ELSE 3
        distanceXP == FMul(FQuot(FOfInt(a.distance), ToDouble(1000)), ToDouble(rate))
        elevationXP == (a.total_elevation_gain \div 10) * 1
    IN /\ ret.val = FFloor(FAdd(distanceXP, FOfInt(elevationXP)))
       /\ (a.type = "Run" /\ a.distance = 550 /\ a.total_elevation_gain = 15
             => ret.val = 6)

\* C19: processing one activity reads the persisted snapshot exactly once and
\* writes it exactly once, so the snapshot the award was computed from is the
\* one the written snapshot is derived from
C19_OneReadOneWrite ==
  \A p \in DOMAIN inv :
    inv[p].pc = "store" =>
      /\ inv[p].reads = 1
      /\ inv[p].writes = 1
      /\ (~inv[p].flagged => inv[p].gameProfile = inv[p].currentGame)

\* C20: a write of the snapshot stores the total the invocation read plus its
\* own award, whatever was written since its read, so two concurrent
\* invocations can leave a totalXP smaller than the awards returned
C20_WriteIgnoresInterveningWrites ==
  [][\A p \in DOMAIN inv :
       UpdateWrite(p) =>
         game'.totalXP = inv[p].currentGame.totalXP + inv[p].xpResult.totalXP]_vars

\* C20 witness: both invocations have returned and the stored totalXP is
\* smaller than the initial totalXP plus both awards
C20_Witness ==
  /\ \A p \in DOMAIN inv : inv[p].pc = "idle"
  /\ Cardinality(stored) = 2
  /\ storedXP > 0
  /\ game.totalXP < storedXP

\* the level fields of a profile
LevelFields(g) ==
  [level |-> g.level, currentLevelXP |-> g.currentLevelXP, nextLevelXP |-> g.nextLevelXP]

\* C21: until the first write the snapshot is the one initializeGameProfile
\* creates: totalXP 0, level 1, currentLevelXP 0, nextLevelXP =
\* getXPRequiredForLevel(2), streakCount 0, streakActive false, dailyXPEarned 0,
\* tier Novice, no completed quests, no lastActivityDate; its level fields are
\* calculateLevel(0); the first activity written gives streakCount 1 with
\* streakActive false
C21_InitialProfile ==
  /\ LevelFields(initializeGameProfileQuad) = calculateLevelQuad(0)
  /\ initializeGameProfileQuad.totalXP = 0
  /\ initializeGameProfileQuad.streakCount = 0
  /\ ~initializeGameProfileQuad.streakActive
  /\ initializeGameProfileQuad.tier = "Novice"
  /\ initializeGameProfileQuad.lastActivityDate = NoDate
  /\ \A p \in DOMAIN inv :
       /\ (stored = {} /\ inv[p].pc \in {"idle", "calc", "update", "write"}) =>
            /\ game.totalXP = 0 /\ game.level = 1 /\ game.currentLevelXP = 0
            /\ game.nextLevelXP = getXPRequiredForLevel(2)
            /\ game.nextLevelXP = 1414
            /\ game.streakCount = 0 /\ ~game.streakActive
            /\ game.dailyXPEarned = 0 /\ game.tier = "Novice"
            /\ game.completedQuestsToday = << >>
            /\ game.lastActivityDate = NoDate
            /\ LevelFields(game) = calculateLevel(0)
       /\ (stored = {} /\ inv[p].pc = "store") =>
            /\ game.streakCount = 1 /\ ~game.streakActive
            /\ game.lastActivityDate = inv[p].activity.start_date

\* C21 witness: the first activity of a new profile has been written
C21_Witness ==
  \E p \in DOMAIN inv :
    /\ stored = {} /\ inv[p].pc = "store"
    /\ inv[p].currentGame.streakCount = 0
    /\ inv[p].currentGame.lastActivityDate = NoDate
    /\ game.streakCount = 1 /\ game.totalXP > 0

\* the totalXP of a profile that may be absent
TotalXPOf(g) == IF g = NoGame THEN 0 ELSE g.totalXP

\* C22: the engine is not idempotent: the same non-suspicious activity with
\* positive base XP processed twice changes the snapshot twice and adds its
\* award to totalXP both times unless the daily cap cut the award, while the
\* second processing leaves streakCount unchanged
C22_EngineNotIdempotent ==
  ( /\ Returned("engine")
    /\ ~isSuspiciousSpeed(call.activity)
    /\ ret.val[1].xpResult.baseXP > 0 ) =>
    LET r1 == ret.val[1]
    IN /\ (~r1.xpResult.capped =>
             /\ r1.xpResult.totalXP >= r1.xpResult.baseXP
             /\ r1.game.totalXP = TotalXPOf(call.gameProfile) + r1.xpResult.totalXP
             /\ r1.game # call.gameProfile)
       /\ (Len(ret.val) = 2 =>
             LET r2 == ret.val[2]
             IN /\ r2.game.streakCount = r1.game.streakCount
                /\ r2.xpResult.baseXP = r1.xpResult.baseXP
                /\ (~r2.xpResult.capped =>
                      /\ r2.xpResult.totalXP >= r2.xpResult.baseXP
                      /\ r2.game.totalXP = r1.game.totalXP + r2.xpResult.totalXP
                      /\ r2.game.totalXP > r1.game.totalXP
                      /\ r2.game # r1.game))

\* C22 witness: the same activity has added XP twice
C22_Witness ==
  /\ Returned("engine")
  /\ Len(ret.val) = 2
  /\ ~isSuspiciousSpeed(call.activity)
  /\ call.gameProfile # NoGame
  /\ ret.val[1].xpResult.totalXP > 0
  /\ ret.val[2].xpResult.totalXP > 0
  /\ ret.val[2].game.totalXP =
       call.gameProfile.totalXP + ret.val[1].xpResult.totalXP + ret.val[2].xpResult.totalXP
  /\ ret.val[2].game.streakCount = ret.val[1].game.streakCount

\* the stored date d is absent or of another calendar day than today
NotFromToday(d, today) == d = NoDate \/ DayOf(d) # DayOf(today)

\* the smaller of two numbers
Min(a, b) == IF a < b THEN a ELSE b

\* C23: daily counters are merged by processing day: with a dailyXPResetDate
\* that is absent or not from today, dailyXPEarned counts as 0 for the cap
\* check and is stored as this activity's totalXP, otherwise as the previous
\* dailyXPEarned + totalXP; completedQuestsToday is replaced by this activity's
\* completions when questResetDate is not from today and extended otherwise
C23_DailyCountersMerge ==
  Returned("engine") =>
    LET g == call.gameProfile
        r == ret.val[1].xpResult
        u == ret.val[1].game
        resetDate == IF g = NoGame THEN NoDate ELSE g.dailyXPResetDate
        questDate == IF g = NoGame THEN NoDate ELSE g.questResetDate
        counted == IF NotFromToday(resetDate, call.today) THEN 0 ELSE g.dailyXPEarned
        sum == r.baseXP + r.streakBonus + r.questBonus
    IN /\ u.dailyXPEarned = counted + r.totalXP
       /\ (NotFromToday(resetDate, call.today) => u.dailyXPEarned = r.totalXP)
       /\ ( ( /\ ~isSuspiciousSpeed(call.activity)
              /\ DayOf(call.activity.start_date) = DayOf(call.today) )
             => r.totalXP = Min(sum, IF counted > 500 THEN 0 ELSE 500 - counted) )
       /\ u.completedQuestsToday =
            IF NotFromToday(questDate, call.today) THEN r.completedQuests
            ELSE g.completedQuestsToday \o r.completedQuests

\* C23 witness: a profile whose counters are from yesterday has them replaced
C23_Witness ==
  /\ Returned("engine")
  /\ Len(ret.val) = 1
  /\ call.gameProfile # NoGame
  /\ call.gameProfile.dailyXPEarned = 450
  /\ call.gameProfile.completedQuestsToday # << >>
  /\ DayOf(call.gameProfile.dailyXPResetDate) # DayOf(call.today)
  /\ DayOf(call.activity.start_date) = DayOf(call.today)
  /\ ret.val[1].xpResult.totalXP > 50
  /\ ret.val[1].game.dailyXPEarned = ret.val[1].xpResult.totalXP
  /\ ret.val[1].game.completedQuestsToday = ret.val[1].xpResult.completedQuests

\* a profile whose counters are from today has them extended
C23_ExtendedReached ==
  /\ Returned("engine")
  /\ call.gameProfile # NoGame
  /\ DayOf(call.gameProfile.dailyXPResetDate) = DayOf(call.today)
  /\ call.gameProfile.dailyXPEarned = 400
  /\ ret.val[1].game.dailyXPEarned > 400

\* C24: an activity dated before the stored lastActivityDate, even by a few
\* hours, is treated as a broken streak: updateStreak returns streakCount 1 and
\* streakActive false, and updateGameProfile overwrites lastActivityDate with
\* the earlier date
C24_EarlierActivityResets ==
  /\ ( ( /\ Returned("updateStreak")
         /\ call.lastActivityDate # NoDate
         /\ call.currentActivityDate < call.lastActivityDate )
        => ret.val = [streakCount |-> 1, streakActive |-> FALSE] )
  /\ ( ( /\ Returned("engine")
         /\ call.gameProfile # NoGame
         /\ call.activity.start_date < call.gameProfile.lastActivityDate )
        => /\ ret.val[1].game.streakCount = 1
           /\ ~ret.val[1].game.streakActive
           /\ ret.val[1].game.lastActivityDate = call.activity.start_date )

\* C24 witness: an active streak is reset by an activity dated a few hours
\* before the last one
C24_Witness ==
  /\ Returned("engine")
  /\ call.gameProfile # NoGame
  /\ call.gameProfile.streakActive
  /\ call.gameProfile.lastActivityDate - call.activity.start_date = 1
  /\ ret.val[1].game.streakCount = 1
  /\ ~ret.val[1].game.streakActive
  /\ ret.val[1].game.lastActivityDate < call.gameProfile.lastActivityDate

\* the elements of a sequence
Elems(s) == {s[i] : i \in 1..Len(s)}

\* C25: checkDailyQuests completes a quest exactly when the weekday of the
\* activity's date is one of its activeDays, it is not in the completed set and
\* every present requirement is met; questBonus is the sum of the rewards of
\* the quests returned, and no quest is returned twice
C25_QuestsByWeekday ==
  Returned("checkDailyQuests") =>
    LET a == call.activity
        weekday == getDay(a.start_date)
        done == Elems(call.completedQuestsToday)
        got == Elems(ret.val.completedQuests)
        runner == weekday \in {1, 3, 5} /\ "DISTANCE_RUNNER" \notin done
                    /\ a.distance >= 5000
        climber == weekday \in {2, 4} /\ "HILL_CLIMBER" \notin done
                     /\ a.total_elevation_gain >= 50
        warrior == weekday \in {0, 6} /\ "WEEKEND_WARRIOR" \notin done
                     /\ a.distance >= 10000
    IN /\ got = (IF runner THEN {"DISTANCE_RUNNER"} ELSE {})
                   \cup (IF climber THEN {"HILL_CLIMBER"} ELSE {})
                   \cup (IF warrior THEN {"WEEKEND_WARRIOR"} ELSE {})
       /\ Len(ret.val.completedQuests) = Cardinality(got)
       /\ ret.val.bonusXP = (IF runner THEN 50 ELSE 0) + (IF climber THEN 50 ELSE 0)
                              + (IF warrior THEN 100 ELSE 0)
       /\ \A i \in 1..Len(DAILY_QUESTS) :
            weekday \notin DAILY_QUESTS[i].activeDays => DAILY_QUESTS[i].id \notin got

\* C25 witness: a 5 km activity on a Monday completes DISTANCE_RUNNER only
C25_Witness ==
  /\ Returned("checkDailyQuests")
  /\ getDay(call.activity.start_date) = 1
  /\ call.activity.distance = 5000
  /\ call.activity.total_elevation_gain = 50
  /\ call.completedQuestsToday = <<"HILL_CLIMBER">>
  /\ ret.val = [completedQuests |-> <<"DISTANCE_RUNNER">>, bonusXP |-> 50]

\* C26: in a sequential run processAndStoreActivity for an id that is already
\* stored returns false (and only then) and leaves the game profile, the stats
\* and the stored documents unchanged, so between invocations activitiesCount
\* is the number of stored ids and totalXP the sum of their awards
C26_DuplicateSkipped ==
  /\ [](\A p \in DOMAIN inv :
          inv[p].pc = "return" =>
            /\ inv[p].activity.id \in stored
            /\ inv[p].result \in {"true", "false"}
            /\ (inv[p].result = "true" => inv[p].writes = 1))
  /\ []((\A p \in DOMAIN inv : inv[p].pc = "idle") =>
          /\ stats.activitiesCount = Cardinality(stored)
          /\ DOMAIN docs = stored
          /\ game.totalXP = storedXP)
  /\ [][\A p \in DOMAIN inv :
          (inv[p].pc = "idle" /\ inv'[p].result = "false") =>
            /\ inv[p].pc = "idle" /\ inv'[p].activity.id \in stored
            /\ UNCHANGED <<game, stats, docs, stored, storedXP>>]_vars

\* C26 witness: an id that is stored with a positive award was delivered again
\* and false returned
C26_Witness ==
  \E p \in DOMAIN inv :
    /\ inv[p].pc = "return" /\ inv[p].result = "false"
    /\ inv[p].activity.id \in stored
    /\ game.totalXP > 0
    /\ stats.activitiesCount = Cardinality(stored)

\* C27: whatever the interleaving of concurrent deliveries of one activity id,
\* its XP is added to totalXP at most once and activitiesCount is incremented
\* at most once: once every invocation has returned, totalXP is at most the
\* sum of the stored awards and activitiesCount at most the number of stored
\* ids
C27_AtMostOnce ==
  (\A p \in DOMAIN inv : inv[p].pc = "idle") =>
    /\ game.totalXP <= storedXP
    /\ stats.activitiesCount <= Cardinality(stored)

\* C28: in every stored snapshot streakActive is true exactly when streakCount
\* is at least STREAK_THRESHOLD, and streakCount is at least 1 once an
\* activity has been processed
C28_StreakFlagMatchesCount ==
  /\ game.streakActive <=> game.streakCount >= STREAK_THRESHOLD
  /\ (stored # {} \/ game.lastActivityDate # NoDate) => game.streakCount >= 1

\* C28 witness: an active streak of at least the threshold, and a streak
\* started again after an active one
C28_Witness ==
  /\ stored # {}
  /\ game.streakActive
  /\ game.streakCount >= STREAK_THRESHOLD

C28_ResetReached ==
  /\ Cardinality(stored) >= STREAK_THRESHOLD
  /\ game.streakCount = 1
  /\ ~game.streakActive

\* the award before capping
SumOf(r) == r.baseXP + r.streakBonus + r.questBonus

\* C29: every award satisfies 0 <= totalXP <= baseXP + streakBonus +
\* questBonus, and capped is true exactly when totalXP is strictly smaller
\* than that sum
C29_AwardBounds ==
  \A p \in DOMAIN inv :
    inv[p].pc \in {"update", "write", "store"} =>
      LET r == inv[p].xpResult
      IN /\ 0 <= r.totalXP
         /\ r.totalXP <= SumOf(r)
         /\ r.capped <=> r.totalXP < SumOf(r)

\* the sum of a field over the stored activity documents
RECURSIVE SumDocs(_, _)
SumDocs(ids, field) ==
  IF ids = {} THEN 0
  ELSE LET id == CHOOSE i \in ids : TRUE
       IN (CASE field = "distance" -> docs[id].distance
             [] field = "moving_time" -> docs[id].moving_time
             [] field = "total_elevation_gain" -> docs[id].total_elevation_gain
             [] field = "xpEarned" -> docs[id].xpEarned)
          + SumDocs(ids \ {id}, field)

============================================================================
